---- MODULE Spec2Model ----
(***************************************************************************)
(* Model of tetanizer: the message schema (src/src/schema.rs) and the      *)
(* process that owns the chat client and the on-disk index                 *)
(* (src/src/main.rs).                                                      *)
(*                                                                         *)
(* Text is modelled as a sequence of one-character strings, an Option<T>   *)
(* as a sequence of length zero (None) or one (Some), a Vec<T> as a        *)
(* sequence, and a tantivy Document as the sequence of (field, value)      *)
(* pairs in the order they were added.                                     *)
(***************************************************************************)
EXTENDS Integers, Sequences, FiniteSets, TLC

VARIABLES
    message,        \* mapper: the &Message handed to parse_message
    doc,            \* mapper: the Document parse_message returned (<<>> before)
    mpc,            \* mapper: "input" before the call, "mapped" after it
    pc,             \* process: position of main
    env,            \* process: environment and build ([token, panic])
    disk,           \* process: the index persisted under ./index
    built,          \* process: the schemas MessageSchema::build returned, in order
    opened,         \* process: the schemas handed to Index::open_or_create, in order
    readyEvents,    \* process: Ready events dispatched to Handler so far
    msgEvents,      \* process: message events dispatched to Handler so far
    parseCalls,     \* process: parse_message calls made by the process so far
    handlerPanics,  \* process: handler tasks that ended in a panic
    mismatches      \* process: open_or_create calls refused for a schema mismatch

vars == <<message, doc, mpc, pc, env, disk, built, opened, readyEvents,
          msgEvents, parseCalls, handlerPanics, mismatches>>

(***************************************************************************)
(* Bounds of the model.                                                    *)
(***************************************************************************)
MaxFrags == 3
MaxAttachments == 2
MaxEmbeds == 2
MaxFields == 1
MaxMentions == 2
MaxReady == 2
MaxMsgEvents == 2

(***************************************************************************)
(* Option and text helpers.                                                *)
(***************************************************************************)
None == <<>>
Some(x) == <<x>>

RECURSIVE SeqsOfLen(_, _)
SeqsOfLen(S, n) ==
    IF n = 0 THEN {<<>>}
    ELSE {Append(s, x) : s \in SeqsOfLen(S, n - 1), x \in S}

SeqsUpTo(S, n) == UNION {SeqsOfLen(S, k) : k \in 0..n}

RECURSIVE Concat(_)
Concat(ss) == IF ss = <<>> THEN <<>> ELSE Head(ss) \o Concat(Tail(ss))

\* str::starts_with
starts_with(t, prefix) ==
    /\ Len(t) >= Len(prefix)
    /\ SubSeq(t, 1, Len(prefix)) = prefix

\* the regex r"https?://", unanchored: a match may begin at any position
LINK_RE_match_at(s, i) ==
    /\ i + 3 <= Len(s)
    /\ s[i] = "h" /\ s[i + 1] = "t" /\ s[i + 2] = "t" /\ s[i + 3] = "p"
    /\ LET j == IF i + 4 <= Len(s) /\ s[i + 4] = "s" THEN {i + 4, i + 5} ELSE {i + 4}
       IN  \E k \in j :
              /\ k + 2 <= Len(s)
              /\ s[k] = ":" /\ s[k + 1] = "/" /\ s[k + 2] = "/"

\* variant: the pattern anchored at the start of the content
LINK_RE_is_match_anchored(s) == Len(s) >= 1 /\ LINK_RE_match_at(s, 1)

LINK_RE_is_match(s) == \E i \in 1..Len(s) : LINK_RE_match_at(s, i)

(***************************************************************************)
(* strum: #[derive(Display, EnumIter)] #[strum(serialize_all =             *)
(* "snake_case")] on MessageMediaType.                                     *)
(***************************************************************************)
UpperCase == <<"A","B","C","D","E","F","G","H","I","J","K","L","M",
               "N","O","P","Q","R","S","T","U","V","W","X","Y","Z">>
LowerCase == <<"a","b","c","d","e","f","g","h","i","j","k","l","m",
               "n","o","p","q","r","s","t","u","v","w","x","y","z">>

IsUpper(c) == \E i \in 1..Len(UpperCase) : UpperCase[i] = c
ToLower(c) == IF IsUpper(c)
              THEN LowerCase[CHOOSE i \in 1..Len(UpperCase) : UpperCase[i] = c]
              ELSE c

\* snake_case of an identifier: an underscore before every capital but the
\* first, and every letter in lower case
RECURSIVE snake_case_from(_, _)
snake_case_from(ident, i) ==
    IF i > Len(ident) THEN <<>>
    ELSE (IF IsUpper(ident[i]) /\ i > 1 THEN <<"_">> ELSE <<>>)
         \o <<ToLower(ident[i])>> \o snake_case_from(ident, i + 1)

snake_case(ident) == snake_case_from(ident, 1)

\* the variants of MessageMediaType, each by its identifier
Link == <<"L","i","n","k">>
Embed == <<"E","m","b","e","d">>
File == <<"F","i","l","e">>
Video == <<"V","i","d","e","o">>
Image == <<"I","m","a","g","e">>
Sound == <<"S","o","u","n","d">>
Sticker == <<"S","t","i","c","k","e","r">>

\* variant: Image declared before Video
MessageMediaType_iter_image_first == <<Link, Embed, File, Image, Video, Sound, Sticker>>

\* EnumIter: the variants in declaration order
MessageMediaType_iter == <<Link, Embed, File, Video, Image, Sound, Sticker>>

\* Display
to_string(media_type) == snake_case(media_type)

(***************************************************************************)
(* The media classifier.                                                   *)
(***************************************************************************)
is_mime_type(attachment, mime_type) ==
    IF attachment.content_type = None THEN FALSE
    ELSE starts_with(attachment.content_type[1], mime_type)

has_mime_type(msg, mime_type) ==
    \E i \in 1..Len(msg.attachments) : is_mime_type(msg.attachments[i], mime_type)

\* variant: Sound looks for the category's own name in the content-type
is_in_message_sound_prefix(media_type, msg) ==
    CASE media_type = Link -> LINK_RE_is_match(msg.content)
      [] media_type = Embed -> msg.embeds # <<>>
      [] media_type = File -> msg.attachments # <<>>
      [] media_type = Video -> has_mime_type(msg, <<"v","i","d","e","o">>)
      [] media_type = Image -> has_mime_type(msg, <<"i","m","a","g","e">>)
      [] media_type = Sound -> has_mime_type(msg, <<"s","o","u","n","d">>)
      [] media_type = Sticker -> msg.sticker_items # <<>>

is_in_message(media_type, msg) ==
    CASE media_type = Link -> LINK_RE_is_match(msg.content)
      [] media_type = Embed -> msg.embeds # <<>>
      [] media_type = File -> msg.attachments # <<>>
      [] media_type = Video -> has_mime_type(msg, <<"v","i","d","e","o">>)
      [] media_type = Image -> has_mime_type(msg, <<"i","m","a","g","e">>)
      [] media_type = Sound -> has_mime_type(msg, <<"a","u","d","i","o">>)
      [] media_type = Sticker -> msg.sticker_items # <<>>

(***************************************************************************)
(* tantivy schema options, as the flags the field table speaks of.  A `|`  *)
(* of two options sets every flag either operand sets.                     *)
(***************************************************************************)
NoOptions == [stored |-> FALSE, indexed |-> FALSE, fast |-> FALSE, tokenizer |-> "none"]
STORED == [NoOptions EXCEPT !.stored = TRUE]
INDEXED == [NoOptions EXCEPT !.indexed = TRUE]
FAST == [NoOptions EXCEPT !.fast = TRUE]
\* tokenized with the default tokenizer, indexed, not stored
TEXT == [NoOptions EXCEPT !.indexed = TRUE, !.tokenizer = "default"]
\* indexed as one raw token, not stored
STRING_OPT == [NoOptions EXCEPT !.indexed = TRUE, !.tokenizer = "raw"]

BitOr(a, b) ==
    [stored |-> a.stored \/ b.stored,
     indexed |-> a.indexed \/ b.indexed,
     fast |-> a.fast \/ b.fast,
     tokenizer |-> IF a.tokenizer # "none" THEN a.tokenizer ELSE b.tokenizer]

(***************************************************************************)
(* SchemaBuilder: add_*_field appends an entry and returns its handle, the *)
(* entry's position counted from 0.  The builder is the sequence of        *)
(* entries added so far.                                                   *)
(***************************************************************************)
add_field(builder, name, type, options) ==
    Append(builder, [name |-> name, type |-> type, options |-> options])

add_u64_field(builder, name, options) == add_field(builder, name, "u64", options)
add_text_field(builder, name, options) == add_field(builder, name, "text", options)
add_date_field(builder, name, options) == add_field(builder, name, "date", options)
add_bool_field(builder, name, options) == add_field(builder, name, "bool", options)

\* the handle of the entry the last add_*_field call added
handle(builder) == Len(builder) - 1

\* variant: `has` added as tokenized text
MessageSchema_build_has_tokenized ==
    LET b0 == <<>>
        b1 == add_u64_field(b0, "id", STORED)
        b2 == add_u64_field(b1, "author_id", INDEXED)
        b3 == add_u64_field(b2, "channel_id", BitOr(INDEXED, FAST))
        b4 == add_text_field(b3, "content", BitOr(TEXT, STORED))
        b5 == add_date_field(b4, "timestamp", INDEXED)
        b6 == add_bool_field(b5, "pinned", INDEXED)
        b7 == add_text_field(b6, "embed_content", TEXT)
        b8 == add_u64_field(b7, "mention_user_id", INDEXED)
        b9 == add_u64_field(b8, "mention_role_id", INDEXED)
        b10 == add_text_field(b9, "has", TEXT)
    IN  [id |-> handle(b1),
         author_id |-> handle(b2),
         channel_id |-> handle(b3),
         content |-> handle(b4),
         timestamp |-> handle(b5),
         pinned |-> handle(b6),
         embed_content |-> handle(b7),
         mention_user_id |-> handle(b8),
         mention_role_id |-> handle(b9),
         has |-> handle(b10),
         inner |-> b10]

\* MessageSchema::build: the struct's fields are evaluated in the order
\* written, the inner schema last
MessageSchema_build ==
    LET b0 == <<>>
        b1 == add_u64_field(b0, "id", STORED)
        b2 == add_u64_field(b1, "author_id", INDEXED)
        b3 == add_u64_field(b2, "channel_id", BitOr(INDEXED, FAST))
        b4 == add_text_field(b3, "content", BitOr(TEXT, STORED))
        b5 == add_date_field(b4, "timestamp", INDEXED)
        b6 == add_bool_field(b5, "pinned", INDEXED)
        b7 == add_text_field(b6, "embed_content", TEXT)
        b8 == add_u64_field(b7, "mention_user_id", INDEXED)
        b9 == add_u64_field(b8, "mention_role_id", INDEXED)
        b10 == add_text_field(b9, "has", STRING_OPT)
    IN  [id |-> handle(b1),
         author_id |-> handle(b2),
         channel_id |-> handle(b3),
         content |-> handle(b4),
         timestamp |-> handle(b5),
         pinned |-> handle(b6),
         embed_content |-> handle(b7),
         mention_user_id |-> handle(b8),
         mention_role_id |-> handle(b9),
         has |-> handle(b10),
         inner |-> b10]

clone_inner(self) == self.inner

(***************************************************************************)
(* The document mapper.                                                    *)
(***************************************************************************)
\* Document::add_text / add_u64 and the doc! macro: one more (field, value)
add_value(d, field, value) == Append(d, [field |-> field, value |-> value])

\* variant: an empty text is skipped like an absent one
add_embed_content_skip_empty(self, d, content_opt) ==
    IF content_opt # None /\ content_opt[1] # <<>>
    THEN add_value(d, self.embed_content, content_opt[1])
    ELSE d

\* MessageSchema::add_embed_content
add_embed_content(self, d, content_opt) ==
    IF content_opt # None
    THEN add_value(d, self.embed_content, content_opt[1])
    ELSE d

\* the inner loop over embed.fields
RECURSIVE add_embed_fields(_, _, _)
add_embed_fields(self, d, fields) ==
    IF fields = <<>> THEN d
    ELSE LET d1 == add_embed_content(self, d, Some(Head(fields).name))
             d2 == add_embed_content(self, d1, Some(Head(fields).value))
         IN  add_embed_fields(self, d2, Tail(fields))

\* Option::map(|a| &a.name) and Option::map(|f| &f.text)
opt_name(author) == IF author = None THEN None ELSE Some(author[1].name)
opt_text(footer) == IF footer = None THEN None ELSE Some(footer[1].text)

\* variant: the title written first
add_embed_title_first(self, d, embed) ==
    LET d1 == add_embed_content(self, d, embed.title)
        d2 == add_embed_content(self, d1, opt_name(embed.author))
        d3 == add_embed_content(self, d2, embed.description)
        d4 == add_embed_fields(self, d3, embed.fields)
    IN  add_embed_content(self, d4, opt_text(embed.footer))

\* the body of the loop over message.embeds, for one embed
add_embed(self, d, embed) ==
    LET d1 == add_embed_content(self, d, opt_name(embed.author))
        d2 == add_embed_content(self, d1, embed.description)
        d3 == add_embed_fields(self, d2, embed.fields)
        d4 == add_embed_content(self, d3, opt_text(embed.footer))
    IN  add_embed_content(self, d4, embed.title)

RECURSIVE add_embeds(_, _, _)
add_embeds(self, d, embeds) ==
    IF embeds = <<>> THEN d
    ELSE add_embeds(self, add_embed(self, d, Head(embeds)), Tail(embeds))

\* the loop over message.mentions
RECURSIVE add_mentions(_, _, _)
add_mentions(self, d, users) ==
    IF users = <<>> THEN d
    ELSE add_mentions(self, add_value(d, self.mention_user_id, Head(users).id), Tail(users))

\* variant: the role ids written to the field of the user ids
RECURSIVE add_mention_roles_as_users(_, _, _)
add_mention_roles_as_users(self, d, roles) ==
    IF roles = <<>> THEN d
    ELSE add_mention_roles_as_users(self, add_value(d, self.mention_user_id, Head(roles)),
                                    Tail(roles))

\* the loop over message.mention_roles
RECURSIVE add_mention_roles(_, _, _)
add_mention_roles(self, d, roles) ==
    IF roles = <<>> THEN d
    ELSE add_mention_roles(self, add_value(d, self.mention_role_id, Head(roles)), Tail(roles))

\* the loop over MessageMediaType::iter()
RECURSIVE add_media_types(_, _, _, _)
add_media_types(self, d, msg, media_types) ==
    IF media_types = <<>> THEN d
    ELSE LET media_type == Head(media_types)
             d1 == IF is_in_message(media_type, msg)
                   THEN add_value(d, self.has, to_string(media_type))
                   ELSE d
         IN  add_media_types(self, d1, msg, Tail(media_types))

\* Timestamp::unix_timestamp and DateTime::from_timestamp_secs: whole seconds
unix_timestamp(ts) == ts.secs
from_timestamp_secs(secs) == [secs |-> secs, nanos |-> 0]

parse_message(self, msg) ==
    LET d0 == <<[field |-> self.id, value |-> msg.id],
                [field |-> self.author_id, value |-> msg.author.id],
                [field |-> self.channel_id, value |-> msg.channel_id],
                [field |-> self.content, value |-> msg.content],
                [field |-> self.timestamp,
                 value |-> from_timestamp_secs(unix_timestamp(msg.timestamp))],
                [field |-> self.pinned, value |-> msg.pinned]>>
        d1 == add_embeds(self, d0, msg.embeds)
        d2 == add_mentions(self, d1, msg.mentions)
        d3 == add_mention_roles(self, d2, msg.mention_roles)
    IN  add_media_types(self, d3, msg, MessageMediaType_iter)

(***************************************************************************)
(* Inputs of the mapper: the messages parse_message is applied to.         *)
(***************************************************************************)
\* message content: up to MaxFrags of these pieces, concatenated
Fragments ==
    {<<"h","t","t","p">>, <<"h","t","t","p","s">>, <<"s">>, <<":","/","/">>,
     <<":","/">>, <<"x">>, <<"H","T","T","P">>}

Contents == {Concat(fs) : fs \in SeqsUpTo(Fragments, MaxFrags)}

ContentTypes ==
    {<<"i","m","a","g","e","/","p","n","g">>,
     <<"v","i","d","e","o","/","m","p","4">>,
     <<"a","u","d","i","o","/","o","g","g">>,
     <<"a","p","p","l","i","c","a","t","i","o","n","/","p","d","f">>,
     <<"i","m","a","g">>,
     <<"I","m","a","g","e","/","p","n","g">>,
     <<"t","e","x","t","/","v","i","d","e","o">>}

Attachments ==
    {[content_type |-> None]} \cup {[content_type |-> Some(t)] : t \in ContentTypes}

Digit(i) == <<"0","1","2","3","4","5","6","7","8","9">>[i + 1]

\* the text of a sub-field of embed e is empty or names the sub-field, so
\* that every non-empty text of a message is found at one place only
EmbedText(slot, e) == {<<>>, <<slot, Digit(e)>>}
FieldText(slot, e, k) == {<<>>, <<slot, Digit(e), Digit(k)>>}

OptOf(S) == {None} \cup {Some(x) : x \in S}

\* the lists of n fields of embed e, the k-th named after its place
RECURSIVE EmbedFieldsOfLen(_, _)
EmbedFieldsOfLen(e, n) ==
    IF n = 0 THEN {<<>>}
    ELSE {Append(s, [name |-> nm, value |-> vl]) :
             s \in EmbedFieldsOfLen(e, n - 1),
             nm \in FieldText("n", e, n), vl \in FieldText("v", e, n)}

EmbedFieldSeqs(e, n) == UNION {EmbedFieldsOfLen(e, k) : k \in 0..n}

\* every shape of embed e: each optional sub-field absent, empty or set
Embeds(e) ==
    {[author |-> a, description |-> d, fields |-> fs, footer |-> f, title |-> t] :
        a \in OptOf({[name |-> x] : x \in EmbedText("a", e)}),
        d \in OptOf(EmbedText("d", e)),
        fs \in EmbedFieldSeqs(e, MaxFields),
        f \in OptOf({[text |-> x] : x \in EmbedText("f", e)}),
        t \in OptOf(EmbedText("t", e))}

\* the shapes of the embeds after the first
LaterEmbeds(e) ==
    {[author |-> None, description |-> None, fields |-> <<>>, footer |-> None,
      title |-> Some(<<"t", Digit(e)>>)],
     [author |-> Some([name |-> <<"a", Digit(e)>>]), description |-> Some(<<>>),
      fields |-> <<[name |-> <<"n", Digit(e), "1">>, value |-> <<>>]>>,
      footer |-> Some([text |-> <<"f", Digit(e)>>]), title |-> None],
     [author |-> None, description |-> None, fields |-> <<>>, footer |-> None,
      title |-> None]}

\* the embeds after the first, when there are n of them
RECURSIVE LaterEmbedSeqs(_)
LaterEmbedSeqs(n) ==
    IF n = 0 THEN {<<>>}
    ELSE {Append(s, e) : s \in LaterEmbedSeqs(n - 1), e \in LaterEmbeds(n + 1)}

\* no embed, or a first embed of any shape and up to MaxEmbeds - 1 more
EmbedSeqs ==
    {<<>>} \cup
    {<<e>> \o s : e \in Embeds(1),
                  s \in UNION {LaterEmbedSeqs(n) : n \in 0..(MaxEmbeds - 1)}}

Users == {[id |-> 101], [id |-> 102]}
RoleIds == {201, 202}

DefaultMessage ==
    [id |-> 1, author |-> [id |-> 101], channel_id |-> 301, content |-> <<>>,
     timestamp |-> [secs |-> 1700000000, nanos |-> 5], pinned |-> FALSE,
     embeds |-> <<>>, attachments |-> <<>>, mentions |-> <<>>,
     mention_roles |-> <<>>, sticker_items |-> <<>>]

SomeEmbeds == {<<>>, <<[author |-> None, description |-> None, fields |-> <<>>,
                        footer |-> None, title |-> Some(<<"t","1">>)]>>}
SomeStickers == {<<>>, <<[id |-> 401]>>}

\* content varies; embeds, attachments and stickers are absent or present
LinkMessages ==
    {[DefaultMessage EXCEPT !.content = c, !.embeds = es, !.attachments = as,
                            !.sticker_items = ss] :
        c \in Contents, es \in SomeEmbeds,
        as \in {<<>>, <<[content_type |-> None]>>}, ss \in SomeStickers}

\* the attachments vary
MimeMessages ==
    {[DefaultMessage EXCEPT !.content = c, !.embeds = es, !.attachments = as,
                            !.sticker_items = ss] :
        c \in {<<>>, <<"h","t","t","p",":","/","/">>}, es \in SomeEmbeds,
        as \in SeqsUpTo(Attachments, MaxAttachments), ss \in SomeStickers}

\* the embeds vary
EmbedMessages == {[DefaultMessage EXCEPT !.embeds = es] : es \in EmbedSeqs}

\* the mentions vary; a Vec may name the same user or role more than once
MentionMessages ==
    {[DefaultMessage EXCEPT !.mentions = us, !.mention_roles = rs, !.pinned = p] :
        us \in SeqsUpTo(Users, MaxMentions), rs \in SeqsUpTo(RoleIds, MaxMentions),
        p \in BOOLEAN}

Messages == LinkMessages \cup MimeMessages \cup EmbedMessages \cup MentionMessages

(***************************************************************************)
(* The mapper applied to one message.                                      *)
(***************************************************************************)
ProcIdle ==
    /\ pc = "start"
    /\ env = [token |-> TRUE, panic |-> "unwind"]
    /\ disk = <<>>
    /\ built = <<>>
    /\ opened = <<>>
    /\ readyEvents = 0
    /\ msgEvents = 0
    /\ parseCalls = 0
    /\ handlerPanics = 0
    /\ mismatches = 0

InitMapper ==
    /\ message \in Messages
    /\ doc = <<>>
    /\ mpc = "input"
    /\ ProcIdle

ParseMessage ==
    /\ mpc = "input"
    /\ doc' = parse_message(MessageSchema_build, message)
    /\ mpc' = "mapped"
    /\ UNCHANGED <<message, pc, env, disk, built, opened, readyEvents,
                   msgEvents, parseCalls, handlerPanics, mismatches>>

NextMapper == ParseMessage

SpecMapper == InitMapper /\ [][NextMapper]_vars

(***************************************************************************)
(* Reading a document back: the values of the field the schema names.      *)
(***************************************************************************)
\* Schema::get_field on the inner schema: the handle of the entry of that name
get_field(schema, name) ==
    (CHOOSE i \in 1..Len(schema) : schema[i].name = name) - 1

\* the values a document holds for the named field, in the order written
values_of(d, name) ==
    LET f == get_field(clone_inner(MessageSchema_build), name)
        sel == SelectSeq(d, LAMBDA fv : fv.field = f)
    IN  [i \in 1..Len(sel) |-> sel[i].value]

Range(seq) == {seq[i] : i \in 1..Len(seq)}
Count(seq, x) == Cardinality({i \in 1..Len(seq) : seq[i] = x})

\* sub occurs in s as a run of consecutive characters
Contains(s, sub) ==
    \E i \in 0..(Len(s) - Len(sub)) : SubSeq(s, i + 1, i + Len(sub)) = sub

\* the first characters of t are those of p
HasPrefix(t, p) == Len(t) >= Len(p) /\ \A k \in 1..Len(p) : t[k] = p[k]

\* some attachment of the message has a content-type beginning with p
SomeAttachmentOfType(msg, p) ==
    \E i \in 1..Len(msg.attachments) :
        /\ Len(msg.attachments[i].content_type) = 1
        /\ HasPrefix(msg.attachments[i].content_type[1], p)

Mapped == mpc = "mapped"
HasValues == values_of(doc, "has")

\* C1: after parse_message, `has` holds "link" iff the content contains
\* "http://" or "https://" as a substring, "embed" iff there is an embed,
\* "file" iff there is an attachment and "sticker" iff there is a sticker,
\* each decided by its own part of the message alone.
C1_LinkEmbedFileSticker ==
    Mapped =>
        /\ <<"l","i","n","k">> \in Range(HasValues)
             <=> \/ Contains(message.content, <<"h","t","t","p",":","/","/">>)
                 \/ Contains(message.content, <<"h","t","t","p","s",":","/","/">>)
        /\ <<"e","m","b","e","d">> \in Range(HasValues) <=> Len(message.embeds) > 0
        /\ <<"f","i","l","e">> \in Range(HasValues) <=> Len(message.attachments) > 0
        /\ <<"s","t","i","c","k","e","r">> \in Range(HasValues)
             <=> Len(message.sticker_items) > 0

\* a link after other text, with an attachment and neither embed nor sticker
C1_Witness ==
    /\ Mapped
    /\ message.content = <<"x","h","t","t","p","s",":","/","/">>
    /\ message.embeds = <<>> /\ message.sticker_items = <<>>
    /\ Len(message.attachments) = 1
    /\ HasValues = <<<<"l","i","n","k">>, <<"f","i","l","e">>>>

\* C2: after parse_message, `has` holds "image" / "video" / "sound" iff some
\* attachment's content-type starts with "image" / "video" / "audio"; an
\* attachment without content-type or of another type adds none of the three
\* and still makes `has` hold "file".
C2_ImageVideoSound ==
    Mapped =>
        /\ <<"i","m","a","g","e">> \in Range(HasValues)
             <=> SomeAttachmentOfType(message, <<"i","m","a","g","e">>)
        /\ <<"v","i","d","e","o">> \in Range(HasValues)
             <=> SomeAttachmentOfType(message, <<"v","i","d","e","o">>)
        /\ <<"s","o","u","n","d">> \in Range(HasValues)
             <=> SomeAttachmentOfType(message, <<"a","u","d","i","o">>)
        /\ Len(message.attachments) > 0 => <<"f","i","l","e">> \in Range(HasValues)

\* an audio attachment, and one without a content-type
C2_Witness ==
    /\ Mapped
    /\ message.attachments =
          <<[content_type |-> Some(<<"a","u","d","i","o","/","o","g","g">>)],
            [content_type |-> None]>>
    /\ HasValues = <<<<"f","i","l","e">>, <<"s","o","u","n","d">>>>

\* a pdf and an attachment without a content-type: a file and nothing more
C2_WitnessPdf ==
    /\ Mapped
    /\ message.attachments =
          <<[content_type |->
               Some(<<"a","p","p","l","i","c","a","t","i","o","n","/","p","d","f">>)],
            [content_type |-> None]>>
    /\ HasValues = <<<<"f","i","l","e">>>>

CategoryNames ==
    <<<<"l","i","n","k">>, <<"e","m","b","e","d">>, <<"f","i","l","e">>,
      <<"v","i","d","e","o">>, <<"i","m","a","g","e">>, <<"s","o","u","n","d">>,
      <<"s","t","i","c","k","e","r">>>>

\* C10: the values of `has` are names of the list link, embed, file, video,
\* image, sound, sticker, written in the order of that list, each at most
\* once; so there are at most seven.
C10_HasOrder ==
    Mapped =>
        /\ \A i \in 1..Len(HasValues) : HasValues[i] \in Range(CategoryNames)
        /\ \A i, j \in 1..Len(HasValues) :
              i < j =>
                 \E a, b \in 1..Len(CategoryNames) :
                    a < b /\ CategoryNames[a] = HasValues[i] /\ CategoryNames[b] = HasValues[j]
        /\ \A x \in Range(CategoryNames) : Count(HasValues, x) <= 1
        /\ Len(HasValues) <= 7

\* a video and an image attachment: one "video", then one "image"
C10_Witness ==
    /\ Mapped
    /\ Len(message.attachments) = 2
    /\ SomeAttachmentOfType(message, <<"i","m","a","g","e">>)
    /\ SomeAttachmentOfType(message, <<"v","i","d","e","o">>)
    /\ HasValues = <<<<"l","i","n","k">>, <<"e","m","b","e","d">>, <<"f","i","l","e">>,
                     <<"v","i","d","e","o">>, <<"i","m","a","g","e">>,
                     <<"s","t","i","c","k","e","r">>>>

\* two image attachments: a single "image"
C10_WitnessTwoImages ==
    /\ Mapped
    /\ Len(message.attachments) = 2
    /\ \A i \in 1..2 :
          message.attachments[i].content_type = Some(<<"i","m","a","g","e","/","p","n","g">>)
    /\ Count(HasValues, <<"i","m","a","g","e">>) = 1

\* an http link, with an embed and a sticker and no attachment
C1_WitnessHttp ==
    /\ Mapped
    /\ message.content = <<"h","t","t","p",":","/","/">>
    /\ message.attachments = <<>>
    /\ HasValues = <<<<"l","i","n","k">>, <<"e","m","b","e","d">>,
                     <<"s","t","i","c","k","e","r">>>>

EmbedContentValues == values_of(doc, "embed_content")

\* the present sub-fields of one embed, each optional one taken as a
\* sequence of no or one text
PresentTexts(embed) ==
    (IF Len(embed.author) = 1 THEN <<embed.author[1].name>> ELSE <<>>)
    \o embed.description
    \o Concat([k \in 1..Len(embed.fields) |->
                  <<embed.fields[k].name, embed.fields[k].value>>])
    \o (IF Len(embed.footer) = 1 THEN <<embed.footer[1].text>> ELSE <<>>)
    \o embed.title

\* how many sub-fields of one embed are present
PresentCount(embed) ==
    Len(embed.author) + Len(embed.description) + 2 * Len(embed.fields)
    + Len(embed.footer) + Len(embed.title)

RECURSIVE SumSeq(_)
SumSeq(ns) == IF ns = <<>> THEN 0 ELSE Head(ns) + SumSeq(Tail(ns))

EmptyCount(embed) ==
    Count(PresentTexts(embed), <<>>)

\* C5 as stated: no `embed_content` value is the empty string.
C5_NoEmptyValue ==
    Mapped => \A i \in 1..Len(EmbedContentValues) : EmbedContentValues[i] # <<>>

\* C5 as amended: only an absent sub-field is skipped.  A sub-field that is
\* present and holds the empty string is written as an empty-string value:
\* `embed_content` holds as many empty strings as there are such sub-fields.
C5_EmptyValuesKept ==
    Mapped =>
        Count(EmbedContentValues, <<>>) =
           SumSeq([e \in 1..Len(message.embeds) |-> EmptyCount(message.embeds[e])])

\* an embed whose description is present and empty and whose title is absent
C5_Witness ==
    /\ Mapped
    /\ Len(message.embeds) = 1
    /\ message.embeds[1].description = Some(<<>>)
    /\ message.embeds[1].title = None
    /\ message.embeds[1].author = Some([name |-> <<"a","1">>])
    /\ message.embeds[1].fields = <<>> /\ message.embeds[1].footer = None
    /\ EmbedContentValues = <<<<"a","1">>, <<>>>>

MentionUserValues == values_of(doc, "mention_user_id")
MentionRoleValues == values_of(doc, "mention_role_id")

\* C4 as stated: one `mention_user_id` value per distinct mentioned user, one
\* `mention_role_id` value per distinct mentioned role, and no id written to
\* the other field.
C4_OnePerDistinct ==
    Mapped =>
        /\ Len(MentionUserValues) = Cardinality({u.id : u \in Range(message.mentions)})
        /\ Len(MentionRoleValues) = Cardinality(Range(message.mention_roles))
        /\ Range(MentionUserValues) = {u.id : u \in Range(message.mentions)}
        /\ Range(MentionRoleValues) = Range(message.mention_roles)
        /\ Range(MentionUserValues) \cap Range(message.mention_roles) = {}
        /\ Range(MentionRoleValues) \cap {u.id : u \in Range(message.mentions)} = {}

\* C4 as amended: one `mention_user_id` value per entry of the mentions
\* list and one `mention_role_id` value per entry of the mention_roles list,
\* in list order, an entry that repeats written again (so one per distinct
\* mention exactly when the list has no repeats); no id is written to the
\* other field.
C4_OnePerEntry ==
    Mapped =>
        /\ MentionUserValues = [i \in 1..Len(message.mentions) |-> message.mentions[i].id]
        /\ MentionRoleValues = message.mention_roles
        /\ Range(MentionUserValues) \cap Range(message.mention_roles) = {}
        /\ Range(MentionRoleValues) \cap {u.id : u \in Range(message.mentions)} = {}
        /\ (Cardinality(Range(message.mentions)) = Len(message.mentions)
              => Len(MentionUserValues) = Cardinality(Range(MentionUserValues)))
        /\ (Cardinality(Range(message.mention_roles)) = Len(message.mention_roles)
              => Len(MentionRoleValues) = Cardinality(Range(MentionRoleValues)))

\* a user mentioned twice in the list, and two roles
C4_Witness ==
    /\ Mapped
    /\ message.mentions = <<[id |-> 102], [id |-> 102]>>
    /\ message.mention_roles = <<201, 202>>
    /\ MentionUserValues = <<102, 102>>
    /\ MentionRoleValues = <<201, 202>>

(***************************************************************************)
(* The process: main, the chat client's event loop and Handler.            *)
(***************************************************************************)
\* an index written by an earlier build of the program, before `has` existed
OlderSchema == SubSeq(clone_inner(MessageSchema_build), 1, 9)

\* Index::open_or_create on the directory: create the index when there is
\* none, open it when its schema is the one given, refuse it otherwise
open_or_create(directory, schema) ==
    IF directory = <<>> THEN [ok |-> TRUE, disk |-> <<schema>>]
    ELSE IF directory[1] = schema THEN [ok |-> TRUE, disk |-> directory]
    ELSE [ok |-> FALSE, disk |-> directory]

\* open_index: each expect panics on an Err.  fs_ok says whether
\* create_dir_all and MmapDirectory::open succeed.
open_index(directory, schema, fs_ok) ==
    IF ~fs_ok
    THEN [outcome |-> "io_panic", called |-> FALSE, disk |-> directory]
    ELSE LET r == open_or_create(directory, schema)
         IN  [outcome |-> IF r.ok THEN "ok" ELSE "mismatch_panic",
              called |-> TRUE, disk |-> r.disk]

\* A panic inside a handler: the client runs each handler as a task of its
\* own, so an unwinding panic ends that task and nothing else; a build with
\* panic = "abort" ends the process.
after_handler_panic(strategy, at) == IF strategy = "abort" THEN "aborted" ELSE at

Init ==
    /\ message = DefaultMessage
    /\ doc = <<>>
    /\ mpc = "input"
    /\ pc = "start"
    /\ env \in [token : BOOLEAN, panic : {"unwind", "abort"}]
    /\ disk \in {<<>>, <<clone_inner(MessageSchema_build)>>, <<OlderSchema>>}
    /\ built = <<>>
    /\ opened = <<>>
    /\ readyEvents = 0
    /\ msgEvents = 0
    /\ parseCalls = 0
    /\ handlerPanics = 0
    /\ mismatches = 0

\* main: dotenv().ok() and env::var("DISCORD_TOKEN").expect(..)
MainReadToken ==
    /\ pc = "start"
    /\ pc' = IF env.token THEN "create_client" ELSE "panicked"
    /\ UNCHANGED <<message, doc, mpc, env, disk, built, opened, readyEvents,
                   msgEvents, parseCalls, handlerPanics, mismatches>>

\* main: Client::builder(token, intents).event_handler(Handler).await.expect(..),
\* then client.start()
MainCreateClient ==
    /\ pc = "create_client"
    /\ \E created \in BOOLEAN : pc' = IF created THEN "running" ELSE "panicked"
    /\ UNCHANGED <<message, doc, mpc, env, disk, built, opened, readyEvents,
                   msgEvents, parseCalls, handlerPanics, mismatches>>

\* Handler::ready, run for a Ready event
ReadyEvent ==
    /\ pc = "running"
    /\ readyEvents < MaxReady
    /\ readyEvents' = readyEvents + 1
    /\ \E fs_ok \in BOOLEAN :
          LET schema == MessageSchema_build
              r == open_index(disk, clone_inner(schema), fs_ok)
          IN  /\ built' = Append(built, schema)
              /\ opened' = IF r.called THEN Append(opened, clone_inner(schema)) ELSE opened
              /\ disk' = r.disk
              /\ mismatches' = IF r.outcome = "mismatch_panic"
                               THEN mismatches + 1 ELSE mismatches
              /\ handlerPanics' = IF r.outcome = "ok"
                                  THEN handlerPanics ELSE handlerPanics + 1
              /\ pc' = IF r.outcome = "ok" THEN pc ELSE after_handler_panic(env.panic, pc)
    /\ UNCHANGED <<message, doc, mpc, env, msgEvents, parseCalls>>

\* a new-message event: Handler does not define `message`, so the trait's
\* default method runs, which does nothing
MessageEvent ==
    /\ pc = "running"
    /\ msgEvents < MaxMsgEvents
    /\ msgEvents' = msgEvents + 1
    /\ UNCHANGED <<message, doc, mpc, pc, env, disk, built, opened, readyEvents,
                   parseCalls, handlerPanics, mismatches>>

\* main: client.start() returns an Err, main prints it and returns
ClientError ==
    /\ pc = "running"
    /\ pc' = "exited"
    /\ UNCHANGED <<message, doc, mpc, env, disk, built, opened, readyEvents,
                   msgEvents, parseCalls, handlerPanics, mismatches>>

Next ==
    \/ MainReadToken
    \/ MainCreateClient
    \/ ReadyEvent
    \/ MessageEvent
    \/ ClientError

Spec == Init /\ [][Next]_vars

(***************************************************************************)
(* Properties of the process.                                              *)
(***************************************************************************)
\* the field table of the specification: per field its type, whether it is
\* stored, indexed and fast, and how a text field is indexed
FieldTable ==
    <<[name |-> "id", type |-> "u64", stored |-> TRUE, indexed |-> FALSE,
       fast |-> FALSE, text |-> "none"],
      [name |-> "author_id", type |-> "u64", stored |-> FALSE, indexed |-> TRUE,
       fast |-> FALSE, text |-> "none"],
      [name |-> "channel_id", type |-> "u64", stored |-> FALSE, indexed |-> TRUE,
       fast |-> TRUE, text |-> "none"],
      [name |-> "content", type |-> "text", stored |-> TRUE, indexed |-> TRUE,
       fast |-> FALSE, text |-> "tokenized"],
      [name |-> "timestamp", type |-> "timestamp", stored |-> FALSE, indexed |-> TRUE,
       fast |-> FALSE, text |-> "none"],
      [name |-> "pinned", type |-> "boolean", stored |-> FALSE, indexed |-> TRUE,
       fast |-> FALSE, text |-> "none"],
      [name |-> "embed_content", type |-> "text", stored |-> FALSE, indexed |-> TRUE,
       fast |-> FALSE, text |-> "tokenized"],
      [name |-> "mention_user_id", type |-> "u64", stored |-> FALSE, indexed |-> TRUE,
       fast |-> FALSE, text |-> "none"],
      [name |-> "mention_role_id", type |-> "u64", stored |-> FALSE, indexed |-> TRUE,
       fast |-> FALSE, text |-> "none"],
      [name |-> "has", type |-> "text", stored |-> FALSE, indexed |-> TRUE,
       fast |-> FALSE, text |-> "exact"]>>

\* a schema entry in the terms of the field table
TableRow(entry) ==
    [name |-> entry.name,
     type |-> CASE entry.type = "date" -> "timestamp"
                [] entry.type = "bool" -> "boolean"
                [] OTHER -> entry.type,
     stored |-> entry.options.stored,
     indexed |-> entry.options.indexed,
     fast |-> entry.options.fast,
     text |-> CASE entry.options.tokenizer = "default" -> "tokenized"
                [] entry.options.tokenizer = "raw" -> "exact"
                [] OTHER -> "none"]

TableOf(inner) == [i \in 1..Len(inner) |-> TableRow(inner[i])]

\* the handles of a MessageSchema, in the order of its fields
HandlesOf(schema) ==
    <<schema.id, schema.author_id, schema.channel_id, schema.content,
      schema.timestamp, schema.pinned, schema.embed_content,
      schema.mention_user_id, schema.mention_role_id, schema.has>>

\* C6: every MessageSchema::build of the process returns the same schema:
\* the ten fields of the field table, in its order, with its types and
\* flags, each handle naming its own field; and every inner schema handed
\* to the engine holds these ten fields.
C6_BuildIdempotent ==
    /\ \A i \in 1..Len(built) :
          /\ Len(built[i].inner) = 10
          /\ TableOf(built[i].inner) = FieldTable
          /\ HandlesOf(built[i]) = [k \in 1..10 |-> k - 1]
    /\ \A i, j \in 1..Len(built) : built[i] = built[j]
    /\ \A i \in 1..Len(opened) : Len(opened[i]) = 10 /\ TableOf(opened[i]) = FieldTable

\* build has run twice in the process and the engine was handed a schema
C6_Witness == Len(built) >= 2 /\ Len(opened) >= 2

\* C7: once an open_or_create has been refused for a schema mismatch, the
\* process handles no further event.
C7_MismatchIsFatal ==
    [][mismatches > 0 => (readyEvents' = readyEvents /\ msgEvents' = msgEvents)]_vars

\* C8: every new-message event dispatched has had its one parse_message call.
C8_EveryMessageMapped == parseCalls = msgEvents

\* C9: MessageSchema::build and the open-or-create of the index happen at
\* most once in the process, however many Ready events arrive, and no
\* message is mapped before the schema is built.
C9_BuiltOnce ==
    /\ Len(built) <= 1
    /\ Len(opened) <= 1
    /\ (parseCalls > 0 => Len(built) >= 1)

====
